---- MODULE Spec2Model ----
(***************************************************************************)
(* Model of uploader-service/main.py: process_queue and the helpers it     *)
(* calls.  The Firestore collections (schedules, video_submissions,        *)
(* user_tokens) are the shared store; every invocation of process_queue is *)
(* a run, and runs may overlap in time.  Each store call (get, query,      *)
(* update, delete) is one atomic step; the statements between two store or *)
(* collaborator calls are local to the run and belong to the step of the   *)
(* call they follow.                                                       *)
(***************************************************************************)
EXTENDS Integers, Sequences, FiniteSets, TLC

\* ------------------------------------------------------------------ bounds
NItems == 2        \* documents of video_submissions in the small store
MaxStarts == 2     \* invocations of process_queue in one behaviour
MaxFaults == 2     \* exceptions the collaborators and the store raise in one behaviour

\* ------------------------------------------------------- program constants
MaxUsersPerRun == 30   \* main.py:154-156, users[:30]

\* --------------------------------------------------------------- universes
Runs == {1, 2}                      \* process_queue invocations that may overlap
SmallUsers == {1, 2}                \* the uids of the small store
SubmitTimes == {1, 2}               \* submittedAt values of the small store
VideoIds == {"yt"}                  \* identifiers the YouTube API returns
NoPath == 0                         \* video_path not bound yet
Unset == "unset"                    \* a field the document does not have
ServerTimestamp == "timestamp"      \* firestore.SERVER_TIMESTAMP, as the store resolves it
RetriableStatuses == {"500", "502", "503", "504"}   \* main.py:112

VARIABLES
    schedule_doc,        \* schedules/<current quarter>: [exists, users]
    video_submissions,   \* doc id -> fields
    user_tokens,         \* uids that have a document in user_tokens
    pc,                  \* run -> position in process_queue
    users,               \* run -> the local list users
    uidx,                \* run -> index of the for loop over users
    videos_to_process,   \* run -> the local list videos_to_process (ids of the snapshots)
    pos,                 \* run -> index of the for loop over videos_to_process
    video_path,          \* run -> the local video_path (NoPath: unbound)
    new_video_id,        \* run -> the local new_video_id
    http_status,         \* run -> e.resp.status of the HttpError the upload loop caught last
    files,               \* run -> payload files in the run's temp_dir
    exc,                 \* run -> the exception in flight ("none": none)
    overlap,             \* whether the trigger fires while a run is still active
    periodic,            \* whether the trigger goes on firing without end
    now_utc,             \* datetime.now(timezone.utc) as process_queue reads it
    current_quarter_id,  \* run -> the local current_quarter_id, a sequence of characters
    startsLeft,          \* invocations still to come
    faultsLeft,          \* exceptions still to come
    hist,                \* run -> what the current run has done (history)
    publishedBy          \* doc id -> runs whose upload_to_youtube returned for it (history)

vars == <<schedule_doc, video_submissions, user_tokens, pc, users, uidx,
          videos_to_process, pos, video_path, new_video_id, http_status, files,
          exc, overlap, periodic, now_utc, current_quarter_id, startsLeft,
          faultsLeft, hist, publishedBy>>

storeVars == <<schedule_doc, video_submissions, user_tokens, overlap, periodic,
               now_utc>>

\* ----------------------------------------------------------------- helpers
IsDistinct(s) == \A a, b \in 1..Len(s) : a # b => s[a] # s[b]

Take(s, n) == IF Len(s) > n THEN SubSeq(s, 1, n) ELSE s

SeqsUpTo(S, n) == UNION {[1..k -> S] : k \in 0..n}

\* A fresh video_submissions document.
NewDoc(uid, at) ==
    [uid |-> uid, submittedAt |-> at, status |-> "queued", updatedAt |-> Unset,
     publishedAt |-> Unset, newVideoId |-> Unset, errorMessage |-> Unset]

\* What a run has done since it started: the positions of videos_to_process whose
\* processing write was attempted, the documents whose Fetch or Publish raised,
\* the documents whose Publish returned, whether a status write raised, the
\* documents whose status the run changed, the uids it queried; the documents
\* for which the token refresh failed with invalid_grant, the documents it wrote
\* to processing and for which it has not yet attempted the published or the
\* error write, the user_tokens it found when it started; and of the current
\* pass of the item loop the calls made so far and the exception the try block
\* raised.
EmptyHist ==
    [attempted |-> {}, failedFP |-> {}, okFP |-> {}, writeFailed |-> FALSE,
     changed |-> {}, queried |-> {}, reauth |-> {}, live |-> {},
     tokensAtStart |-> {}, calls |-> <<>>, caught |-> "none"]

\* ------------------------------------------------------------ pure pieces
LimitUsers_NoCap(us) == us

\* main.py:154-156
LimitUsers(us) == Take(us, MaxUsersPerRun)

user_video_query_Latest(vs, uid) ==
    LET Q == {i \in DOMAIN vs : vs[i].status = "queued" /\ vs[i].uid = uid}
    IN IF Q = {} THEN <<>>
       ELSE <<CHOOSE i \in Q : \A j \in Q :
                  \/ vs[i].submittedAt > vs[j].submittedAt
                  \/ vs[i].submittedAt = vs[j].submittedAt /\ i >= j>>

\* main.py:165-172: where status == queued, where uid == uid, order_by submittedAt,
\* limit 1.  Firestore breaks ties of the order_by field by document id.
user_video_query(vs, uid) ==
    LET Q == {i \in DOMAIN vs : vs[i].status = "queued" /\ vs[i].uid = uid}
    IN IF Q = {} THEN <<>>
       ELSE <<CHOOSE i \in Q : \A j \in Q :
                  \/ vs[i].submittedAt < vs[j].submittedAt
                  \/ vs[i].submittedAt = vs[j].submittedAt /\ i <= j>>

\* main.py:193
ProcessingUpdate(doc) ==
    [doc EXCEPT !.status = "processing", !.updatedAt = ServerTimestamp]

PublishedUpdate_StatusOnly(doc, id) ==
    [doc EXCEPT !.status = "published", !.publishedAt = ServerTimestamp,
                !.updatedAt = ServerTimestamp]

\* main.py:208-214
PublishedUpdate(doc, id) ==
    [doc EXCEPT !.status = "published", !.publishedAt = ServerTimestamp,
                !.updatedAt = ServerTimestamp, !.newVideoId = id]

ErrorUpdate_MessageOnly(doc, msg) ==
    [doc EXCEPT !.errorMessage = msg, !.updatedAt = ServerTimestamp]

\* main.py:219-223
ErrorUpdate(doc, msg) ==
    [doc EXCEPT !.status = "error", !.errorMessage = msg,
                !.updatedAt = ServerTimestamp]

\* current_quarter_id before main.py:138 assigns it.
NoSlot == <<>>

round_to_quarter_Nearest(dt) ==
    [dt EXCEPT !.minute = ((dt.minute + 7) \div 15) * 15,
               !.second = 0, !.microsecond = 0]

\* main.py:122-126
round_to_quarter(dt) ==
    [dt EXCEPT !.minute = (dt.minute \div 15) * 15, !.second = 0, !.microsecond = 0]

\* The characters of the decimal digits.
Digits == <<"0", "1", "2", "3", "4", "5", "6", "7", "8", "9">>

\* %H and %M of strftime: two decimal digits, zero-padded.
TwoDigits(n) == <<Digits[(n \div 10) + 1], Digits[(n % 10) + 1]>>

\* main.py:138, strftime('%H_%M')
strftime_H_M(dt) == TwoDigits(dt.hour) \o <<"_">> \o TwoDigits(dt.minute)

NothingToProcess_Never(vtp) == FALSE

\* main.py:175
NothingToProcess(vtp) == vtp = <<>>

DeleteToken_Skip(tokens, uid) == tokens

\* main.py:61
DeleteToken(tokens, uid) == tokens \ {uid}

RemovePayload_Skip(fs, path) == fs

\* main.py:225-226
RemovePayload(fs, path) == fs \ {path}

\* The document the run is working on (doc of the for loop, main.py:182-190).
CurDoc(r) == videos_to_process[r][pos[r]]

\* ------------------------------------------------------------------- Init
SmallSchedules ==
    {[exists |-> FALSE, users |-> <<>>]}
        \cup {[exists |-> TRUE, users |-> s] : s \in SeqsUpTo(SmallUsers, 2)}

\* Stores of NItems queued documents; document ids grow with the owner's uid.
SmallStores ==
    {[i \in 1..NItems |-> NewDoc(o[i], t[i])] :
        o \in {f \in [1..NItems -> SmallUsers] :
                  \A i \in 1..(NItems - 1) : f[i] <= f[i + 1]},
        t \in [1..NItems -> SubmitTimes]}

RunInit ==
    /\ pc = [r \in Runs |-> "idle"]
    /\ users = [r \in Runs |-> <<>>]
    /\ current_quarter_id = [r \in Runs |-> NoSlot]
    /\ uidx = [r \in Runs |-> 1]
    /\ videos_to_process = [r \in Runs |-> <<>>]
    /\ pos = [r \in Runs |-> 1]
    /\ video_path = [r \in Runs |-> NoPath]
    /\ new_video_id = [r \in Runs |-> Unset]
    /\ http_status = [r \in Runs |-> Unset]
    /\ files = [r \in Runs |-> {}]
    /\ exc = [r \in Runs |-> "none"]
    /\ hist = [r \in Runs |-> EmptyHist]

\* 13:07:00 UTC.
SampleNow == [hour |-> 13, minute |-> 7, second |-> 0, microsecond |-> 0]

SmallInit ==
    /\ periodic = FALSE
    /\ now_utc = SampleNow
    /\ schedule_doc \in SmallSchedules
    /\ video_submissions \in SmallStores
    /\ user_tokens = SmallUsers
    /\ startsLeft = MaxStarts
    /\ faultsLeft = MaxFaults
    /\ publishedBy = [i \in DOMAIN video_submissions |-> {}]
    /\ RunInit

\* Invocations one after the other.
Init == SmallInit /\ overlap = FALSE

\* Invocations that may overlap in time.
InitOverlap == SmallInit /\ overlap = TRUE

\* Every minute of the day, at the start, in the middle and at the end of the
\* minute.
Times ==
    [hour : 0..23, minute : 0..59, second : {0, 30, 59}, microsecond : {0, 999999}]

\* A time of the day and a store with no schedule for its quarter.
InitSlot ==
    /\ periodic = FALSE
    /\ now_utc \in Times
    /\ schedule_doc = [exists |-> FALSE, users |-> <<>>]
    /\ video_submissions = [i \in 1..NItems |-> NewDoc(1, 1)]
    /\ user_tokens = SmallUsers
    /\ overlap = FALSE
    /\ startsLeft = MaxStarts
    /\ faultsLeft = MaxFaults
    /\ publishedBy = [i \in DOMAIN video_submissions |-> {}]
    /\ RunInit

\* A slot with about MaxUsersPerRun users, each with one queued document, listed
\* by rising or by falling uid; one invocation, at most one exception.
BigUsers == 1..(MaxUsersPerRun + 2)

BigSchedules ==
    {[exists |-> TRUE, users |-> [k \in 1..n |-> IF up THEN k ELSE n + 1 - k]] :
        n \in (MaxUsersPerRun - 1)..(MaxUsersPerRun + 2), up \in BOOLEAN}

InitCap ==
    /\ periodic = FALSE
    /\ now_utc = SampleNow
    /\ schedule_doc \in BigSchedules
    /\ video_submissions = [i \in BigUsers |-> NewDoc(i, 1)]
    /\ user_tokens = BigUsers
    /\ overlap = FALSE
    /\ startsLeft = 1
    /\ faultsLeft = 1
    /\ publishedBy = [i \in DOMAIN video_submissions |-> {}]
    /\ RunInit

\* A slot with one user more than a run takes, each with one queued document;
\* the trigger fires again and again; at most one exception.
SlotUsers == 1..(MaxUsersPerRun + 1)

InitStarve ==
    /\ periodic = TRUE
    /\ now_utc = SampleNow
    /\ schedule_doc = [exists |-> TRUE, users |-> [k \in SlotUsers |-> k]]
    /\ video_submissions = [i \in SlotUsers |-> NewDoc(i, 1)]
    /\ user_tokens = SlotUsers
    /\ overlap = FALSE
    /\ startsLeft = 1
    /\ faultsLeft = 1
    /\ publishedBy = [i \in DOMAIN video_submissions |-> {}]
    /\ RunInit

\* ---------------------------------------------------------------- actions
Uid(r) == video_submissions[CurDoc(r)].uid

\* An outcome that raises needs an exception still to come.
Raises(raised) ==
    /\ raised => faultsLeft > 0
    /\ faultsLeft' = IF raised THEN faultsLeft - 1 ELSE faultsLeft

\* with tempfile.TemporaryDirectory(): leaving the block removes the directory.
CleanupTempDir(fs) == {}

\* main.py:137-138 alone: the quarter of now_utc.
ResolveSlot(r) ==
    /\ pc[r] = "idle"
    /\ current_quarter_id[r] = NoSlot
    /\ current_quarter_id' = [current_quarter_id EXCEPT
                                 ![r] = strftime_H_M(round_to_quarter(now_utc))]
    /\ UNCHANGED <<storeVars, pc, users, uidx, videos_to_process, pos, video_path,
                   new_video_id, http_status, files, exc, startsLeft, faultsLeft,
                   hist, publishedBy>>

\* main.py:135-161: read the schedule of the current quarter, cap the users.
\* The runs are interchangeable: an invocation takes the first run that is not
\* active.  Without overlap the trigger waits for the active run to end.
Active(r) == pc[r] \notin {"idle", "done", "aborted"}

StartRun(r) ==
    /\ ~Active(r)
    /\ \A q \in Runs : q < r => Active(q)
    /\ overlap \/ \A q \in Runs : ~Active(q)
    /\ periodic \/ startsLeft > 0
    /\ startsLeft' = IF periodic THEN startsLeft ELSE startsLeft - 1
    /\ current_quarter_id' = [current_quarter_id EXCEPT
                                 ![r] = strftime_H_M(round_to_quarter(now_utc))]
    /\ LET us == IF schedule_doc.exists THEN schedule_doc.users ELSE <<>>
       IN /\ users' = [users EXCEPT ![r] = LimitUsers(us)]
          /\ pc' = [pc EXCEPT ![r] = IF us = <<>> THEN "done" ELSE "select"]
    /\ uidx' = [uidx EXCEPT ![r] = 1]
    /\ videos_to_process' = [videos_to_process EXCEPT ![r] = <<>>]
    /\ pos' = [pos EXCEPT ![r] = 1]
    /\ video_path' = [video_path EXCEPT ![r] = NoPath]
    /\ new_video_id' = [new_video_id EXCEPT ![r] = Unset]
    /\ http_status' = [http_status EXCEPT ![r] = Unset]
    /\ files' = [files EXCEPT ![r] = {}]
    /\ exc' = [exc EXCEPT ![r] = "none"]
    /\ hist' = [hist EXCEPT ![r] = [EmptyHist EXCEPT !.tokensAtStart = user_tokens]]
    /\ UNCHANGED <<storeVars, faultsLeft, publishedBy>>

\* main.py:164-179: one query of the for loop over users; after the last one the
\* emptiness test of videos_to_process and the entry of the with block.
SelectVideo(r) ==
    /\ pc[r] = "select"
    /\ LET uid == users[r][uidx[r]]
           got == videos_to_process[r] \o user_video_query(video_submissions, uid)
           last == uidx[r] = Len(users[r])
       IN /\ videos_to_process' = [videos_to_process EXCEPT ![r] = got]
          /\ hist' = [hist EXCEPT ![r].queried = @ \cup {uid}]
          /\ uidx' = [uidx EXCEPT ![r] = IF last THEN @ ELSE @ + 1]
          /\ pc' = [pc EXCEPT ![r] = IF ~last THEN "select"
                                     ELSE IF NothingToProcess(got) THEN "done"
                                     ELSE "mark_processing"]
    /\ UNCHANGED <<storeVars, users, current_quarter_id, pos, video_path,
                   new_video_id, http_status, files, exc,
                   startsLeft, faultsLeft, publishedBy>>

\* main.py:182-195: the update to processing, then video_path is bound.
MarkProcessing(r) ==
    /\ pc[r] = "mark_processing"
    /\ \E ok \in BOOLEAN :
        /\ Raises(~ok)
        /\ LET d == CurDoc(r)
           IN IF ok
              THEN /\ video_submissions' = [video_submissions EXCEPT
                          ![d] = ProcessingUpdate(@)]
                   /\ video_path' = [video_path EXCEPT ![r] = d]
                   /\ pc' = [pc EXCEPT ![r] = "download"]
                   /\ exc' = exc
                   /\ hist' = [hist EXCEPT
                          ![r].attempted = @ \cup {pos[r]},
                          ![r].live = @ \cup {d},
                          ![r].calls = <<"update_processing">>,
                          ![r].caught = "none",
                          ![r].changed = @ \cup
                              (IF video_submissions[d].status # "processing"
                               THEN {d} ELSE {})]
              ELSE /\ exc' = [exc EXCEPT ![r] = "mark_processing"]
                   /\ pc' = [pc EXCEPT ![r] = "except"]
                   /\ hist' = [hist EXCEPT ![r].attempted = @ \cup {pos[r]},
                                           ![r].calls = <<"update_processing">>,
                                           ![r].caught = "mark_processing",
                                           ![r].writeFailed = TRUE]
                   /\ UNCHANGED <<video_submissions, video_path>>
    /\ UNCHANGED <<overlap, periodic, now_utc, schedule_doc, user_tokens, users,
                   current_quarter_id, uidx, videos_to_process, pos,
                   new_video_id, http_status, files, startsLeft, publishedBy>>

\* main.py:198, download_video (66-80): yt-dlp writes the payload to video_path or
\* raises; a failed download may leave the file behind.
Download(r) ==
    /\ pc[r] = "download"
    /\ \E out \in {"ok", "raise", "raise_partial"} :
        /\ Raises(out # "ok")
        /\ files' = [files EXCEPT ![r] =
                        IF out = "raise" THEN @ ELSE @ \cup {video_path[r]}]
        /\ pc' = [pc EXCEPT ![r] = IF out = "ok" THEN "credentials" ELSE "except"]
        /\ exc' = [exc EXCEPT ![r] = IF out = "ok" THEN @ ELSE "download"]
        /\ hist' = [hist EXCEPT
                ![r].failedFP = IF out = "ok" THEN @ ELSE @ \cup {CurDoc(r)},
                ![r].calls = Append(@, "download_video"),
                ![r].caught = exc'[r]]
    /\ UNCHANGED <<storeVars, users, current_quarter_id, uidx, videos_to_process, pos,
                   video_path,
                   new_video_id, http_status, startsLeft, publishedBy>>

\* main.py:83, get_refreshed_credentials (40-63).
GetRefreshedCredentials(r) ==
    /\ pc[r] = "credentials"
    /\ \E out \in {"ok", "invalid_grant", "refresh_error"} :
        LET missing == Uid(r) \notin user_tokens
            raised == missing \/ out # "ok"
        IN /\ Raises(~missing /\ out # "ok")
           /\ missing => out = "ok"
           /\ user_tokens' = IF ~missing /\ out = "invalid_grant"
                             THEN DeleteToken(user_tokens, Uid(r))
                             ELSE user_tokens
           /\ exc' = [exc EXCEPT ![r] =
                        IF missing THEN "token_missing"
                        ELSE IF out = "invalid_grant" THEN "reauthenticate"
                        ELSE IF out = "refresh_error" THEN "refresh_error"
                        ELSE @]
           /\ pc' = [pc EXCEPT ![r] = IF raised THEN "except" ELSE "upload"]
           /\ hist' = [hist EXCEPT
                ![r].failedFP = IF raised THEN @ \cup {CurDoc(r)} ELSE @,
                ![r].reauth = IF exc'[r] = "reauthenticate"
                              THEN @ \cup {CurDoc(r)} ELSE @,
                ![r].calls = Append(@, "upload_to_youtube"),
                ![r].caught = exc'[r]]
    /\ UNCHANGED <<overlap, periodic, now_utc, schedule_doc, video_submissions, users,
                   current_quarter_id, uidx,
                   videos_to_process, pos, video_path, new_video_id, http_status, files,
                   startsLeft, publishedBy>>

\* main.py:105-119: one pass of the while loop around request.next_chunk(): the
\* response, an HttpError with a status of main.py:112, after which the loop
\* goes round again, or any other exception, which leaves upload_to_youtube.
NextChunk(r) ==
    /\ pc[r] = "upload"
    /\ \E out \in {"response", "terminal"} \cup RetriableStatuses, id \in VideoIds :
        /\ Raises(out = "terminal")
        /\ new_video_id' = [new_video_id EXCEPT ![r] =
                                IF out = "response" THEN id ELSE @]
        /\ http_status' = [http_status EXCEPT ![r] =
                                IF out \in RetriableStatuses THEN out ELSE Unset]
        /\ pc' = [pc EXCEPT ![r] = CASE out = "response" -> "mark_published"
                                     [] out = "terminal" -> "except"
                                     [] OTHER -> "upload"]
        /\ exc' = [exc EXCEPT ![r] = IF out = "terminal" THEN "upload" ELSE @]
        /\ hist' = [hist EXCEPT
                ![r].failedFP = IF out = "terminal" THEN @ \cup {CurDoc(r)} ELSE @,
                ![r].okFP = IF out = "response" THEN @ \cup {CurDoc(r)} ELSE @,
                ![r].caught = exc'[r]]
        /\ publishedBy' = [publishedBy EXCEPT ![CurDoc(r)] =
                                IF out = "response" THEN @ \cup {r} ELSE @]
    /\ UNCHANGED <<storeVars, users, current_quarter_id, uidx, videos_to_process, pos,
                   video_path,
                   files, startsLeft>>

\* main.py:208-215: the update to published.
MarkPublished(r) ==
    /\ pc[r] = "mark_published"
    /\ \E ok \in BOOLEAN :
        /\ Raises(~ok)
        /\ LET d == CurDoc(r)
           IN IF ok
              THEN /\ video_submissions' = [video_submissions EXCEPT
                          ![d] = PublishedUpdate(@, new_video_id[r])]
                   /\ pc' = [pc EXCEPT ![r] = "finally"]
                   /\ exc' = exc
                   /\ hist' = [hist EXCEPT
                          ![r].live = @ \ {d},
                          ![r].calls = Append(@, "update_published"),
                          ![r].changed = @ \cup
                              (IF video_submissions[d].status # "published"
                               THEN {d} ELSE {})]
              ELSE /\ exc' = [exc EXCEPT ![r] = "mark_published"]
                   /\ pc' = [pc EXCEPT ![r] = "except"]
                   /\ hist' = [hist EXCEPT
                          ![r].live = @ \ {d},
                          ![r].calls = Append(@, "update_published"),
                          ![r].caught = "mark_published",
                          ![r].writeFailed = TRUE]
                   /\ UNCHANGED video_submissions
    /\ UNCHANGED <<overlap, periodic, now_utc, schedule_doc, user_tokens, users,
                   current_quarter_id, uidx, videos_to_process, pos,
                   video_path, new_video_id, http_status, files, startsLeft, publishedBy>>

\* main.py:217-223: except Exception: the update to error with str(e); an
\* exception of this update leaves the handler with the new exception in flight.
ExceptHandler(r) ==
    /\ pc[r] = "except"
    /\ \E ok \in BOOLEAN :
        /\ Raises(~ok)
        /\ LET d == CurDoc(r)
           IN IF ok
              THEN /\ video_submissions' = [video_submissions EXCEPT
                          ![d] = ErrorUpdate(@, exc[r])]
                   /\ exc' = [exc EXCEPT ![r] = "none"]
                   /\ hist' = [hist EXCEPT
                          ![r].live = @ \ {d},
                          ![r].calls = Append(@, "update_error"),
                          ![r].changed = @ \cup
                              (IF video_submissions[d].status # "error"
                               THEN {d} ELSE {})]
              ELSE /\ exc' = [exc EXCEPT ![r] = "mark_error"]
                   /\ hist' = [hist EXCEPT
                          ![r].live = @ \ {d},
                          ![r].calls = Append(@, "update_error"),
                          ![r].writeFailed = TRUE]
                   /\ UNCHANGED video_submissions
    /\ pc' = [pc EXCEPT ![r] = "finally"]
    /\ UNCHANGED <<overlap, periodic, now_utc, schedule_doc, user_tokens, users,
                   current_quarter_id, uidx, videos_to_process, pos,
                   video_path, new_video_id, http_status, files, startsLeft, publishedBy>>

\* main.py:224-226, then the next pass of the for loop or the end of the with
\* block.  video_path unbound: os.path.exists(video_path) raises
\* UnboundLocalError.  An exception in flight leaves the loop and the with block.
Finally(r) ==
    /\ pc[r] = "finally"
    /\ LET unbound == video_path[r] = NoPath
           removed == IF unbound THEN files[r]
                      ELSE RemovePayload(files[r], video_path[r])
           leaving == unbound \/ exc[r] # "none"
           last == pos[r] = Len(videos_to_process[r])
       IN /\ exc' = [exc EXCEPT ![r] = IF unbound THEN "UnboundLocalError" ELSE @]
          /\ pc' = [pc EXCEPT ![r] = IF leaving THEN "aborted"
                                     ELSE IF last THEN "done"
                                     ELSE "mark_processing"]
          /\ pos' = [pos EXCEPT ![r] = IF leaving \/ last THEN @ ELSE @ + 1]
          /\ files' = [files EXCEPT ![r] =
                          IF leaving \/ last THEN CleanupTempDir(removed)
                          ELSE removed]
    /\ UNCHANGED <<storeVars, users, current_quarter_id, uidx, videos_to_process,
                   video_path,
                   new_video_id, http_status, startsLeft, faultsLeft, hist, publishedBy>>

Next ==
    \E r \in Runs :
        \/ StartRun(r)
        \/ SelectVideo(r)
        \/ MarkProcessing(r)
        \/ Download(r)
        \/ GetRefreshedCredentials(r)
        \/ NextChunk(r)
        \/ MarkPublished(r)
        \/ ExceptHandler(r)
        \/ Finally(r)

Spec == Init /\ [][Next]_vars

SpecOverlap == InitOverlap /\ [][Next]_vars

SpecCap == InitCap /\ [][Next]_vars

NextSlot == \E r \in Runs : ResolveSlot(r)

SpecSlot == InitSlot /\ [][NextSlot]_vars

\* The steps of a run that has started: the interpreter goes on executing a
\* process_queue call until it returns or an exception leaves it.
RunStep(r) ==
    \/ SelectVideo(r)
    \/ MarkProcessing(r)
    \/ Download(r)
    \/ GetRefreshedCredentials(r)
    \/ NextChunk(r)
    \/ MarkPublished(r)
    \/ ExceptHandler(r)
    \/ Finally(r)

SpecFair == Spec /\ \A r \in Runs : WF_vars(RunStep(r))

\* The periodic trigger: process_queue is invoked again and again, and every
\* invocation goes on until it returns or an exception leaves it.
SpecStarve ==
    /\ InitStarve /\ [][Next]_vars
    /\ \A r \in Runs : WF_vars(RunStep(r))
    /\ WF_vars(\E r \in Runs : StartRun(r))

\* ------------------------------------------------------------------ claims
Docs == DOMAIN video_submissions

Status(i) == video_submissions[i].status

\* C1: when a run over distinct items 1..K has ended, normally or by an
\* exception, the processing write was attempted for every one of them: an
\* exception while item N is processed does not keep items N+1..K from being
\* attempted.
C1_FailureIsolation ==
    \A r \in Runs :
        (pc[r] \in {"done", "aborted"} /\ IsDistinct(videos_to_process[r])) =>
            hist[r].attempted = 1..Len(videos_to_process[r])

\* C2: when a run in which no status write raised has ended, every item A for
\* which Fetch or Publish raised (and never returned) has status error and every
\* item B of another owner for which both returned (and never raised) has status
\* published, in either order of A and B in videos_to_process.
C2_FailureDoesNotBlock ==
    \A r \in Runs :
        (pc[r] \in {"done", "aborted"} /\ ~hist[r].writeFailed) =>
            \A A \in hist[r].failedFP \ hist[r].okFP,
               B \in hist[r].okFP \ hist[r].failedFP :
                video_submissions[A].uid # video_submissions[B].uid =>
                    Status(A) = "error" /\ Status(B) = "published"

\* A run ended after Fetch or Publish raised for its first item and both
\* returned for its second item.
C2_Witness ==
    \E r \in Runs :
        /\ pc[r] = "done"
        /\ ~hist[r].writeFailed
        /\ Len(videos_to_process[r]) = 2
        /\ videos_to_process[r][1] \in hist[r].failedFP \ hist[r].okFP
        /\ videos_to_process[r][2] \in hist[r].okFP \ hist[r].failedFP

\* C3: every step that changes the status of a document takes it from queued to
\* processing, from processing to published or from processing to error.
C3_OnlyThreeTransitions ==
    [][\A i \in Docs :
          video_submissions'[i].status # Status(i) =>
              <<Status(i), video_submissions'[i].status>> \in
                  {<<"queued", "processing">>, <<"processing", "published">>,
                   <<"processing", "error">>}]_vars

\* C4: once the status of a document is published or error, no step of any run
\* changes any of its fields.
C4_TerminalStatuses ==
    [][\A i \in Docs :
          Status(i) \in {"published", "error"} =>
              video_submissions'[i] = video_submissions[i]]_vars

\* C5: at most one of the runs that overlap performs Publish for a document, so
\* the document is published at most once.
C5_AtMostOnce ==
    \A i \in Docs : Cardinality(publishedBy[i]) <= 1

\* C6: between two items and once the run has returned, normally or by an
\* exception, the run's temporary directory holds no payload file; while an
\* item is processed it holds at most that item's file.
C6_Cleanup ==
    \A r \in Runs :
        /\ pc[r] \in {"idle", "select", "mark_processing", "done", "aborted"} =>
               files[r] = {}
        /\ files[r] # {} => files[r] = {CurDoc(r)}

\* A run has gone on to its next item, or has ended, after the payload of an
\* item was downloaded, and no file is left.
C6_Witness ==
    \E r \in Runs :
        /\ pc[r] \in {"mark_processing", "done", "aborted"}
        /\ hist[r].okFP # {}
        /\ hist[r].writeFailed
        /\ files[r] = {}

\* C7: a document whose status is published has newVideoId and publishedAt set.
C7_PublishedHasResult ==
    \A i \in Docs :
        Status(i) = "published" =>
            /\ video_submissions[i].newVideoId \in VideoIds
            /\ video_submissions[i].publishedAt = ServerTimestamp

\* A document is published.
C7_Witness == \E i \in Docs : Status(i) = "published"

\* C8: the step of a run that follows a failed processing write leaves the
\* document as it was: no error status is written to it.
C8_ProcessingWriteFailureAborts ==
    [][\A r \in Runs :
          (pc[r] = "except" /\ exc[r] = "mark_processing" /\ pc'[r] # pc[r]) =>
              video_submissions'[CurDoc(r)] = video_submissions[CurDoc(r)]]_vars

\* C9: a query of the selection adds at most one document; the document it adds
\* is a queued document of the queried user with the smallest submittedAt among
\* that user's queued documents at the time of the query; it adds nothing when
\* the user has no queued document; and when the users are distinct no two
\* selected documents have the same owner.
C9_Selection ==
    [][\A r \in Runs :
          pc[r] = "select" =>
              LET uid == users[r][uidx[r]]
                  old == videos_to_process[r]
                  new == videos_to_process'[r]
                  Q == {j \in Docs : Status(j) = "queued"
                                        /\ video_submissions[j].uid = uid}
              IN /\ Q = {} => new = old
                 /\ new # old =>
                        /\ Len(new) = Len(old) + 1
                        /\ SubSeq(new, 1, Len(old)) = old
                        /\ new[Len(new)] \in Q
                        /\ \A j \in Q :
                              video_submissions[new[Len(new)]].submittedAt
                                  <= video_submissions[j].submittedAt
                 /\ IsDistinct(users[r]) =>
                        \A a, b \in 1..Len(new) :
                            a # b => video_submissions[new[a]].uid
                                        # video_submissions[new[b]].uid]_vars

\* A run selected a queued document of a user whose earlier document is no
\* longer queued.
C9_Witness ==
    \E r \in Runs, i, j \in Docs :
        /\ pc[r] = "mark_processing" /\ pos[r] = 1
        /\ videos_to_process[r][1] = i
        /\ video_submissions[j].uid = video_submissions[i].uid
        /\ Status(j) \in {"processing", "published", "error"}
        /\ Status(i) = "queued"
        /\ video_submissions[j].submittedAt < video_submissions[i].submittedAt

\* The users of the schedule document that are among its first MaxUsersPerRun.
FirstUsers ==
    {schedule_doc.users[k] : k \in {n \in 1..Len(schedule_doc.users) :
                                        n <= MaxUsersPerRun}}

\* C10: a run considers only the first MaxUsersPerRun users of the schedule: it
\* queries and selects documents of none but these, changes the status of at most
\* MaxUsersPerRun documents and of no document of a user who is not among these.
C10_Cap ==
    \A r \in Runs :
        /\ Len(users[r]) <= MaxUsersPerRun
        /\ hist[r].queried \subseteq FirstUsers
        /\ \A k \in 1..Len(videos_to_process[r]) :
               video_submissions[videos_to_process[r][k]].uid \in FirstUsers
        /\ Cardinality(hist[r].changed) <= MaxUsersPerRun
        /\ \A i \in hist[r].changed : video_submissions[i].uid \in FirstUsers

\* A run over a schedule of more than MaxUsersPerRun users ended after it
\* changed the status of MaxUsersPerRun documents.
C10_Witness ==
    \E r \in Runs :
        /\ pc[r] = "done"
        /\ Len(schedule_doc.users) > MaxUsersPerRun
        /\ Cardinality(hist[r].changed) = MaxUsersPerRun

\* C11: every upload_to_youtube call leaves its upload loop, by a response or by
\* a terminal error, so (with the steps of a run weakly fair) every run ends.
C11_PublishTerminates ==
    \A r \in Runs : (pc[r] = "upload") ~> (pc[r] # "upload")

InItemLoop(r) ==
    pc[r] \in {"mark_processing", "download", "credentials", "upload",
               "mark_published", "except", "finally"}

\* C13: a run is past the reading of the schedule only when the schedule
\* document exists and lists a user, and in the item loop only when it selected
\* a document; a run that ended with nothing selected ended normally, attempted
\* no write, changed no document, called neither Fetch nor Publish, left no file
\* and left user_tokens as it found them.  (No action writes schedule_doc.)
C13_EarlyTermination ==
    \A r \in Runs :
        /\ Active(r) => schedule_doc.exists /\ schedule_doc.users # <<>>
        /\ InItemLoop(r) => videos_to_process[r] # <<>>
        /\ (pc[r] = "done" /\ videos_to_process[r] = <<>>) =>
               /\ exc[r] = "none"
               /\ hist[r].attempted = {} /\ ~hist[r].writeFailed
               /\ hist[r].changed = {}
               /\ hist[r].calls = <<>>
               /\ hist[r].okFP = {} /\ hist[r].failedFP = {}
               /\ files[r] = {}
               /\ user_tokens = hist[r].tokensAtStart

\* A run over a schedule that lists a user ended with nothing selected, while a
\* document of that user is in the store, no longer queued.
C13_Witness ==
    \E r \in Runs, i \in Docs :
        /\ pc[r] = "done" /\ videos_to_process[r] = <<>>
        /\ users[r] # <<>>
        /\ video_submissions[i].uid = users[r][1]
        /\ Status(i) # "queued"

\* The number a digit character stands for.
DigitValue(c) == CHOOSE n \in 0..9 : Digits[n + 1] = c

\* C14: the resolved slot is five characters HH_MM; HH reads as the hour of
\* now_utc and MM as one of 00, 15, 30, 45, the start of the quarter of an hour
\* that holds the minute of now_utc (so the slot is the same within a quarter
\* and differs between quarters of a day); 13:07:00 gives 13_00 and 13:59:59
\* gives 13_45.
C14_SlotResolution ==
    \A r \in Runs :
        current_quarter_id[r] # NoSlot =>
            LET id == current_quarter_id[r]
                hh == 10 * DigitValue(id[1]) + DigitValue(id[2])
                mm == 10 * DigitValue(id[4]) + DigitValue(id[5])
            IN /\ Len(id) = 5 /\ id[3] = "_"
               /\ \A k \in {1, 2, 4, 5} : \E n \in 0..9 : Digits[n + 1] = id[k]
               /\ hh = now_utc.hour
               /\ mm \in {0, 15, 30, 45}
               /\ mm <= now_utc.minute /\ now_utc.minute < mm + 15
               /\ (now_utc.hour = 13 /\ now_utc.minute = 7 /\ now_utc.second = 0)
                      => id = <<"1", "3", "_", "0", "0">>
               /\ (now_utc.hour = 13 /\ now_utc.minute = 59 /\ now_utc.second = 59)
                      => id = <<"1", "3", "_", "4", "5">>

\* The slot of 13:59:59 was resolved.
C14_Witness ==
    \E r \in Runs :
        /\ now_utc.hour = 13 /\ now_utc.minute = 59 /\ now_utc.second = 59
        /\ current_quarter_id[r] = <<"1", "3", "_", "4", "5">>

\* The calls of a pass of the item loop in the order of the try block.
TryOrder ==
    <<"update_processing", "download_video", "upload_to_youtube", "update_published">>

\* The calls of the current pass without the handler's error write.
TryCalls(r) ==
    LET c == hist[r].calls
    IN IF c # <<>> /\ c[Len(c)] = "update_error" THEN SubSeq(c, 1, Len(c) - 1) ELSE c

\* Within a pass the processing write precedes Fetch, Fetch precedes Publish and
\* the published write follows a Publish that returned; Fetch is called only
\* after the processing write succeeded and Publish only after Fetch succeeded,
\* with the payload in place.
StepOrder(r) ==
    /\ Len(TryCalls(r)) <= Len(TryOrder)
    /\ TryCalls(r) = SubSeq(TryOrder, 1, Len(TryCalls(r)))
    /\ pc[r] = "download" => hist[r].calls = <<"update_processing">>
    /\ pc[r] \in {"credentials", "upload"} =>
            /\ CurDoc(r) \in files[r]
            /\ hist[r].caught = "none"
    /\ pc[r] = "mark_published" =>
            /\ CurDoc(r) \in hist[r].okFP
            /\ new_video_id[r] \in VideoIds
    /\ pc[r] \in {"except", "finally"}
          /\ (\E k \in DOMAIN hist[r].calls : hist[r].calls[k] = "update_published") =>
            CurDoc(r) \in hist[r].okFP

\* The pass of run r whose Fetch raised has run its handler.
FetchRaised(r) == pc[r] = "finally" /\ hist[r].caught = "download"

\* C15 as stated: the calls of a pass keep the order of the steps, and an item
\* whose Fetch raised has status error and an errorMessage, with no Publish call.
C15_StepOrdering ==
    \A r \in Runs :
        Active(r) /\ pc[r] # "select" =>
            /\ StepOrder(r)
            /\ FetchRaised(r) =>
                /\ Status(CurDoc(r)) = "error"
                /\ video_submissions[CurDoc(r)].errorMessage # Unset
                /\ hist[r].calls = <<"update_processing", "download_video", "update_error">>

\* C15, amended: the calls of a pass keep the order of the steps; for an item
\* whose Fetch raised Publish is not called and the error write is attempted;
\* the item has status error and the cause as errorMessage if that write
\* succeeded, and is left processing if it raised.
C15_StepOrderingBestEffort ==
    \A r \in Runs :
        Active(r) /\ pc[r] # "select" =>
            /\ StepOrder(r)
            /\ FetchRaised(r) =>
                /\ hist[r].calls = <<"update_processing", "download_video", "update_error">>
                /\ exc[r] = "none" =>
                    /\ Status(CurDoc(r)) = "error"
                    /\ video_submissions[CurDoc(r)].errorMessage = "download"
                /\ exc[r] # "none" => Status(CurDoc(r)) = "processing"

\* Fetch raised for an item and the handler wrote the error.
C15_Witness ==
    \E r \in Runs :
        /\ FetchRaised(r)
        /\ exc[r] = "none"
        /\ Status(CurDoc(r)) = "error"
        /\ video_submissions[CurDoc(r)].errorMessage = "download"

\* C16: in a run without overlapping invocations at most one payload file exists
\* and at most one item is between its processing write and the attempt of its
\* published or error write.
C16_OneLiveItem ==
    \A r \in Runs :
        /\ Cardinality(files[r]) <= 1
        /\ Cardinality(hist[r].live) <= 1
        /\ hist[r].live # {} => Active(r) /\ hist[r].live = {CurDoc(r)}
        /\ files[r] # {} => Active(r)

\* A second item of a run is live with its payload on disk, after the first
\* one's payload was on disk too.
C16_Witness ==
    \E r \in Runs :
        /\ pos[r] = 2
        /\ IsDistinct(videos_to_process[r])
        /\ hist[r].live = {CurDoc(r)}
        /\ files[r] = {CurDoc(r)}
        /\ videos_to_process[r][1] \in hist[r].okFP

\* C17: a run that started when the owner of a document had no stored
\* credential does not call Fetch for the document and does not change its
\* status.
C17_NoDoomedRetry ==
    \A r \in Runs : \A d \in Docs :
        pc[r] # "idle" /\ video_submissions[d].uid \notin hist[r].tokensAtStart =>
            /\ d \notin hist[r].changed
            /\ ~(pc[r] = "download" /\ CurDoc(r) = d)

\* C18: the positions of videos_to_process that a run has handled hold
\* different documents: no document gets a second processing write in a run.
C18_OncePerRun ==
    \A r \in Runs : \A a, b \in hist[r].attempted :
        a # b => videos_to_process[r][a] # videos_to_process[r][b]

\* C19: a run that selected every document once and has ended leaves every
\* document for which Publish returned an identifier in status published with
\* that identifier as newVideoId.
C19_UploadedIsPublished ==
    \A r \in Runs :
        pc[r] \in {"done", "aborted"} /\ IsDistinct(videos_to_process[r]) =>
            \A d \in hist[r].okFP :
                /\ Status(d) = "published"
                /\ video_submissions[d].newVideoId \in VideoIds

\* Something has failed: an exception was raised or the upstream answered a
\* chunk with an error.
Disturbed == faultsLeft = 0 \/ \E r \in Runs : http_status[r] # Unset

\* C20: with the trigger firing again and again for the same schedule, and as
\* long as nothing fails, the queued item of every user of the slot is
\* eventually taken out of the queue.
C20_NoStarvation ==
    \A u \in SlotUsers : <>(Status(u) # "queued" \/ Disturbed)

====
